---- MODULE Spec2Model ----
(***************************************************************************)
(* Model of src/app.py, the heart-disease risk assessment script.          *)
(*                                                                         *)
(* app.py is a Streamlit script: the server executes it from its first     *)
(* line to its last once for every page load and once more for every       *)
(* press of the form's submit button.  One run of the script is one        *)
(* action of the model.  What a run leaves on the page is the record out.  *)
(*                                                                         *)
(* Numbers.  BMI is a slider with step 0.1 and is kept in tenths (25.0 is  *)
(* 250).  A probability is kept in ten-thousandths (0.5 is 5000) and a     *)
(* risk percentage in tenths of a percent (45.7 is 457).  A cell of the    *)
(* data frame is an exact fraction [n, d].                                 *)
(***************************************************************************)
EXTENDS Integers, Sequences, FiniteSets, TLC

VARIABLES
    disk,       \* the two artifact files beside the script
    model,      \* the global model of the current run
    scaler,     \* the global scaler of the current run
    loads,      \* how many times the loading block has been executed
    startup,    \* how the first execution of the loading block ended
    submitted,  \* the value of the submit button in the current run
    answers,    \* the values the sixteen widgets returned in the current run
    reply,      \* what the opaque artifacts did in the current run
    input_df,   \* the data frame as built on line 107 (<<>> when not built)
    scaled_df,  \* the data frame after line 113 (<<>> when not reached)
    out         \* what the current run has put on the page

vars == <<disk, model, scaler, loads, startup, submitted, answers, reply,
          input_df, scaled_df, out>>

(***************************************************************************)
(* Bounds of the model.                                                    *)
(***************************************************************************)
\* The script is executed at most MaxLoads times in one behaviour.
MaxLoads == 4

(***************************************************************************)
(* The option lists of the form.                                           *)
(***************************************************************************)
gen_health_options == <<"Poor", "Fair", "Good", "Very good", "Excellent">>

diabetic_options ==
    <<"No", "Yes", "No, borderline diabetes", "Yes (during pregnancy)">>

age_categories ==
    <<"18-24", "25-29", "30-34", "35-39", "40-44", "45-49", "50-54",
      "55-59", "60-64", "65-69", "70-74", "75-79", "80 or older">>

yes_no_options == <<"No", "Yes">>

sex_options == <<"Female", "Male">>

Range(s) == {s[i] : i \in 1..Len(s)}

\* The sliders: BMI 10.0..50.0, days 0..30, sleep 1..12.
bmi_min == 100
bmi_max == 500
days_min == 0
days_max == 30
sleep_min == 1
sleep_max == 12

\* The values the widgets show before the user touches them.
widget_defaults ==
    [age_category |-> "18-24", sex |-> "Female", bmi |-> 250,
     physical_health |-> 0, mental_health |-> 0, sleep_time |-> 7,
     stroke |-> "No", diff_walking |-> "No", asthma |-> "No",
     kidney_disease |-> "No", skin_cancer |-> "No", diabetic |-> "No",
     gen_health |-> "Poor", smoking |-> "No", alcohol |-> "No",
     physical_activity |-> "No"]

\* What each widget can return.
widget_domain ==
    [age_category |-> Range(age_categories), sex |-> Range(sex_options),
     bmi |-> bmi_min..bmi_max,
     physical_health |-> days_min..days_max,
     mental_health |-> days_min..days_max,
     sleep_time |-> sleep_min..sleep_max,
     stroke |-> Range(yes_no_options), diff_walking |-> Range(yes_no_options),
     asthma |-> Range(yes_no_options),
     kidney_disease |-> Range(yes_no_options),
     skin_cancer |-> Range(yes_no_options),
     diabetic |-> Range(diabetic_options),
     gen_health |-> Range(gen_health_options),
     smoking |-> Range(yes_no_options), alcohol |-> Range(yes_no_options),
     physical_activity |-> Range(yes_no_options)]

InDomain(a) == \A f \in DOMAIN widget_domain : a[f] \in widget_domain[f]

(***************************************************************************)
(* The artifacts.  Both are opaque pickles.  Of the classifier the script  *)
(* uses the type of the probabilities it returns; of the scaler, the       *)
(* fitted minimum and maximum of its four columns.                         *)
(***************************************************************************)
features_to_scale == <<"BMI", "PhysicalHealth", "MentalHealth", "SleepTime">>

NoModel == [id |-> "none", ptype |-> "none"]

\* float: predict_proba returns Python-float compatible float64 values.
\* float32: it returns numpy float32 values (gradient-boosted models do).
ModelArtifacts ==
    {[id |-> "m1", ptype |-> "float"], [id |-> "m2", ptype |-> "float32"]}

NoScaler ==
    [id |-> "none",
     dmin |-> [c \in Range(features_to_scale) |-> 0],
     dmax |-> [c \in Range(features_to_scale) |-> 1]]

\* BMI bounds in tenths, the others in units.
ScalerArtifacts ==
    {[id |-> "s1",
      dmin |-> [BMI |-> 120, PhysicalHealth |-> 0, MentalHealth |-> 0,
                SleepTime |-> 1],
      dmax |-> [BMI |-> 948, PhysicalHealth |-> 30, MentalHealth |-> 30,
                SleepTime |-> 24]],
     [id |-> "s2",
      dmin |-> [BMI |-> 100, PhysicalHealth |-> 0, MentalHealth |-> 0,
                SleepTime |-> 1],
      dmax |-> [BMI |-> 500, PhysicalHealth |-> 30, MentalHealth |-> 30,
                SleepTime |-> 12]]}

\* A file that is absent or cannot be unpickled loads as NoModel / NoScaler.
DiskStates ==
    [model : ModelArtifacts \cup {NoModel},
     scaler : ScalerArtifacts \cup {NoScaler}]

(***************************************************************************)
(* What the opaque calls of one run do: scaler.transform and the two       *)
(* predict calls either raise or return; the classifier returns a class    *)
(* label and, separately, a probability.                                   *)
(***************************************************************************)
ProbValues == {0, 4567, 4999, 5000, 8200, 10000}

Replies ==
    {[transform |-> "raise", predict |-> "ok", label |-> 0, prob |-> 0],
     [transform |-> "ok", predict |-> "raise", label |-> 0, prob |-> 0]}
    \cup [transform : {"ok"}, predict : {"ok"}, label : {0, 1},
          prob : ProbValues]

NoReply == [transform |-> "ok", predict |-> "ok", label |-> 0, prob |-> 0]

(***************************************************************************)
(* Encoding of the answers (lines 86-104).                                 *)
(***************************************************************************)
InList(list, v) == \E i \in 1..Len(list) : list[i] = v

\* list.index(v) with a 1-based result: what an off-by-one would return.
IndexOneBased(list, v) ==
    CHOOSE i \in 1..Len(list) :
        list[i] = v /\ \A j \in 1..(i - 1) : list[j] # v

\* list.index(v): the zero-based position of the first element equal to v.
\* It raises ValueError when there is none; callers test InList first.
Index(list, v) ==
    (CHOOSE i \in 1..Len(list) :
        list[i] = v /\ \A j \in 1..(i - 1) : list[j] # v) - 1

\* 1 if x == "Yes" else 0
YesNo(x) == IF x = "Yes" THEN 1 ELSE 0

\* 1 if sex == "Male" else 0
SexCode(x) == IF x = "Male" THEN 1 ELSE 0

\* A cell holding the integer v, and one holding v tenths.
Cell(v) == [n |-> v, d |-> 1]
Tenths(v) == [n |-> v, d |-> 10]

\* The index calls of the dictionary literal raise for an answer that is not
\* in its option list; nothing else in the literal can raise.
EncodingRaises(a) ==
    \/ ~InList(age_categories, a.age_category)
    \/ ~InList(diabetic_options, a.diabetic)
    \/ ~InList(gen_health_options, a.gen_health)

\* The dictionary with two columns exchanged: what a reordering would build.
input_data_swapped(a) ==
    << <<"BMI", Tenths(a.bmi)>>,
       <<"Smoking", Cell(YesNo(a.smoking))>>,
       <<"AlcoholDrinking", Cell(YesNo(a.alcohol))>>,
       <<"Stroke", Cell(YesNo(a.stroke))>>,
       <<"PhysicalHealth", Cell(a.physical_health)>>,
       <<"MentalHealth", Cell(a.mental_health)>>,
       <<"DiffWalking", Cell(YesNo(a.diff_walking))>>,
       <<"Sex", Cell(SexCode(a.sex))>>,
       <<"AgeCategory", Cell(Index(age_categories, a.age_category))>>,
       <<"Diabetic", Cell(Index(diabetic_options, a.diabetic))>>,
       <<"PhysicalActivity", Cell(YesNo(a.physical_activity))>>,
       <<"GenHealth", Cell(Index(gen_health_options, a.gen_health))>>,
       <<"SleepTime", Cell(a.sleep_time)>>,
       <<"KidneyDisease", Cell(YesNo(a.kidney_disease))>>,
       <<"Asthma", Cell(YesNo(a.asthma))>>,
       <<"SkinCancer", Cell(YesNo(a.skin_cancer))>> >>

\* The dictionary of one-element columns, in insertion order, and the
\* one-row data frame made of it: a sequence of <<column name, cell>>.
input_data(a) ==
    << <<"BMI", Tenths(a.bmi)>>,
       <<"Smoking", Cell(YesNo(a.smoking))>>,
       <<"AlcoholDrinking", Cell(YesNo(a.alcohol))>>,
       <<"Stroke", Cell(YesNo(a.stroke))>>,
       <<"PhysicalHealth", Cell(a.physical_health)>>,
       <<"MentalHealth", Cell(a.mental_health)>>,
       <<"DiffWalking", Cell(YesNo(a.diff_walking))>>,
       <<"Sex", Cell(SexCode(a.sex))>>,
       <<"AgeCategory", Cell(Index(age_categories, a.age_category))>>,
       <<"Diabetic", Cell(Index(diabetic_options, a.diabetic))>>,
       <<"PhysicalActivity", Cell(YesNo(a.physical_activity))>>,
       <<"GenHealth", Cell(Index(gen_health_options, a.gen_health))>>,
       <<"SleepTime", Cell(a.sleep_time)>>,
       <<"Asthma", Cell(YesNo(a.asthma))>>,
       <<"KidneyDisease", Cell(YesNo(a.kidney_disease))>>,
       <<"SkinCancer", Cell(YesNo(a.skin_cancer))>> >>

(***************************************************************************)
(* Scaling (lines 110-113).                                                *)
(***************************************************************************)
\* Min-max scaling of one cell: (x - min) / (max - min).  The fitted min and
\* max are kept in the unit of the cell, so the quotient is the fraction
\* (n - min) / (max - min).
MinMax(cell, lo, hi) == [n |-> cell.n - lo, d |-> hi - lo]

\* The frame replaced by the transformed columns alone: what assigning the
\* result of transform to input_df itself would leave.
ScaleOnlyScaled(df, scl) ==
    [i \in 1..Len(features_to_scale) |->
        LET c == features_to_scale[i]
            j == CHOOSE k \in 1..Len(df) : df[k][1] = c
        IN  <<c, MinMax(df[j][2], scl.dmin[c], scl.dmax[c])>>]

\* input_df[features_to_scale] = scaler.transform(input_df[features_to_scale]):
\* the named columns are overwritten in place, the frame keeps its columns.
Scale(df, scl) ==
    [i \in 1..Len(df) |->
        IF df[i][1] \in Range(features_to_scale)
        THEN <<df[i][1],
               MinMax(df[i][2], scl.dmin[df[i][1]], scl.dmax[df[i][1]])>>
        ELSE df[i]]

(***************************************************************************)
(* Interpretation and rendering (lines 115-178).                           *)
(***************************************************************************)
\* round(probability * 100, 1), in tenths of a percent, halves to even.
Round1(probability) ==
    LET q == probability \div 10
        r == probability % 10
    IN  IF r < 5 THEN q
        ELSE IF r > 5 THEN q + 1
        ELSE IF q % 2 = 0 THEN q ELSE q + 1

\* The page of a run that has rendered nothing yet.
BlankPage ==
    [load_error |-> FALSE, form |-> FALSE, header |-> FALSE,
     verdict |-> "None", risk_percentage |-> <<>>, progress |-> <<>>,
     guidance |-> "None", risk_summary |-> "None", risk_factors |-> <<>>,
     failed |-> FALSE]

\* The results header with the verdict taken from the probability: what
\* deriving the class from the 0.5 cutoff would render.
ResultsPanelFromProbability(page, prediction, probability, risk_percentage) ==
    [page EXCEPT !.header = TRUE,
                 !.verdict = IF probability >= 5000 THEN "AtRisk"
                             ELSE "NotAtRisk",
                 !.risk_percentage = <<risk_percentage>>]

\* Lines 123-136: the header, the verdict from the class label, and the
\* confidence column with the risk percentage.
ResultsPanel(page, prediction, probability, risk_percentage) ==
    [page EXCEPT !.header = TRUE,
                 !.verdict = IF prediction = 1 THEN "AtRisk" ELSE "NotAtRisk",
                 !.risk_percentage = <<risk_percentage>>]

\* st.progress(value) accepts a Python int or float and raises
\* StreamlitAPIException for any other type; numpy float32 is neither.
ProgressRaises(mdl) == mdl.ptype # "float"

\* The guidance branch with a strict comparison: what > 0.5 would select.
GuidanceTierStrict(probability) ==
    IF probability > 5000 THEN "Elevated" ELSE "Low"

\* Lines 143-159: st.warning (elevated) if probability >= 0.5 else st.info.
GuidanceTier(probability) ==
    IF probability >= 5000 THEN "Elevated" ELSE "Low"

Flag(label, bmi, age) == [label |-> label, bmi |-> bmi, age |-> age]

AppendIf(cond, list, flag) == IF cond THEN Append(list, flag) ELSE list

older_age_categories ==
    {"55-59", "60-64", "65-69", "70-74", "75-79", "80 or older"}

\* The flag list with strict numeric comparisons: what > 30 and > 15 would
\* collect.
risk_factors_strict(a) ==
    LET f1 == AppendIf(a.smoking = "Yes", <<>>, Flag("Smoking", 0, ""))
        f2 == AppendIf(a.bmi > 300, f1, Flag("Obesity", a.bmi, ""))
        f3 == AppendIf(a.physical_health > 15, f2,
                       Flag("Frequent physical health issues", 0, ""))
        f4 == AppendIf(a.age_category \in older_age_categories, f3,
                       Flag("Age", 0, a.age_category))
    IN  AppendIf(a.diabetic # "No", f4, Flag("Diabetes", 0, ""))

\* Lines 163-173: the list built by five independent appends.
risk_factors(a) ==
    LET f1 == AppendIf(a.smoking = "Yes", <<>>, Flag("Smoking", 0, ""))
        f2 == AppendIf(a.bmi >= 300, f1, Flag("Obesity", a.bmi, ""))
        f3 == AppendIf(a.physical_health >= 15, f2,
                       Flag("Frequent physical health issues", 0, ""))
        f4 == AppendIf(a.age_category \in older_age_categories, f3,
                       Flag("Age", 0, a.age_category))
    IN  AppendIf(a.diabetic # "No", f4, Flag("Diabetes", 0, ""))

\* Lines 175-178: the list is written out, or the explicit sentence
\* "No major risk factors identified" when it is empty.
RiskSummary(page, factors) ==
    [page EXCEPT !.risk_summary = IF factors # <<>> THEN "Identified"
                                  ELSE "NoMajor",
                 !.risk_factors = factors]

\* Lines 180-181: whatever was rendered stays, the failure report is added.
AssessmentFailed(page) == [page EXCEPT !.failed = TRUE]

\* Lines 83-181, the body of "if submitted", for the answers a, the loaded
\* artifacts mdl and scl, and the behaviour r of their calls.  The result is
\* the frame as built, the frame as scaled, and the page.
Assessment(page, a, mdl, scl, r) ==
    IF EncodingRaises(a)
    THEN [input_df |-> <<>>, scaled_df |-> <<>>,
          out |-> AssessmentFailed(page)]
    ELSE LET df == input_data(a) IN
    IF r.transform = "raise"
    THEN [input_df |-> df, scaled_df |-> <<>>,
          out |-> AssessmentFailed(page)]
    ELSE LET sdf == Scale(df, scl) IN
    IF r.predict = "raise"
    THEN [input_df |-> df, scaled_df |-> sdf,
          out |-> AssessmentFailed(page)]
    ELSE LET prediction == r.label
             probability == r.prob
             risk_percentage == Round1(probability)
             shown == ResultsPanel(page, prediction, probability,
                                   risk_percentage)
         IN
    IF ProgressRaises(mdl)
    THEN [input_df |-> df, scaled_df |-> sdf,
          out |-> AssessmentFailed(shown)]
    ELSE LET guided == [shown EXCEPT !.progress = <<probability>>,
                                     !.guidance = GuidanceTier(probability)]
         IN  [input_df |-> df, scaled_df |-> sdf,
              out |-> RiskSummary(guided, risk_factors(a))]

(***************************************************************************)
(* The script as a whole.                                                  *)
(***************************************************************************)
\* Lines 7-9: both joblib.load calls return.
LoadSucceeds == disk.model # NoModel /\ disk.scaler # NoScaler

\* The patients submitted through the form in the model of the whole script.
FormInputs ==
    {widget_defaults,
     [widget_defaults EXCEPT !.smoking = "Yes", !.bmi = 320,
                             !.physical_health = 20,
                             !.age_category = "60-64", !.diabetic = "Yes"],
     [widget_defaults EXCEPT !.sex = "Male", !.bmi = 300,
                             !.gen_health = "Excellent",
                             !.physical_activity = "Yes",
                             !.sleep_time = 12]}

Init ==
    /\ disk \in DiskStates
    /\ model = NoModel
    /\ scaler = NoScaler
    /\ loads = 0
    /\ startup = "pending"
    /\ submitted = FALSE
    /\ answers = widget_defaults
    /\ reply = NoReply
    /\ input_df = <<>>
    /\ scaled_df = <<>>
    /\ out = BlankPage

\* The artifact files are written, replaced or removed by whoever deploys
\* the script; the script only names them (lines 8-9).
ReplaceArtifacts ==
    /\ \E d \in DiskStates : d # disk /\ disk' = d
    /\ UNCHANGED <<model, scaler, loads, startup, submitted, answers, reply,
                   input_df, scaled_df, out>>

\* A run in which a joblib.load raises (lines 7-12): the error is shown and
\* st.stop() ends the run before the form is reached.  model is bound when
\* only the second load raised.
RunLoadFails ==
    /\ loads < MaxLoads
    /\ ~LoadSucceeds
    /\ model' = disk.model
    /\ scaler' = NoScaler
    /\ loads' = loads + 1
    /\ startup' = IF startup = "pending" THEN "failed" ELSE startup
    /\ submitted' = FALSE
    /\ reply' = NoReply
    /\ input_df' = <<>>
    /\ scaled_df' = <<>>
    /\ out' = [BlankPage EXCEPT !.load_error = TRUE]
    /\ UNCHANGED <<disk, answers>>

\* A run for a page load: the artifacts are loaded, the form is rendered
\* with its default values, the button returns False (lines 7-83).
RunPageLoad ==
    /\ loads < MaxLoads
    /\ LoadSucceeds
    /\ model' = disk.model
    /\ scaler' = disk.scaler
    /\ loads' = loads + 1
    /\ startup' = IF startup = "pending" THEN "ok" ELSE startup
    /\ submitted' = FALSE
    /\ answers' = widget_defaults
    /\ reply' = NoReply
    /\ input_df' = <<>>
    /\ scaled_df' = <<>>
    /\ out' = [BlankPage EXCEPT !.form = TRUE]
    /\ UNCHANGED disk

\* A run for a press of the submit button, which is on the page only after
\* a run that rendered the form: the artifacts are loaded again, the form is
\* rendered, the button returns True and the assessment is made
\* (lines 7-181).
RunSubmit ==
    /\ loads < MaxLoads
    /\ out.form
    /\ LoadSucceeds
    /\ \E a \in FormInputs, r \in Replies :
          LET res == Assessment([BlankPage EXCEPT !.form = TRUE], a,
                                disk.model, disk.scaler, r)
          IN  /\ answers' = a
              /\ reply' = r
              /\ input_df' = res.input_df
              /\ scaled_df' = res.scaled_df
              /\ out' = res.out
    /\ model' = disk.model
    /\ scaler' = disk.scaler
    /\ loads' = loads + 1
    /\ startup' = IF startup = "pending" THEN "ok" ELSE startup
    /\ submitted' = TRUE
    /\ UNCHANGED disk

Next ==
    \/ ReplaceArtifacts
    \/ RunLoadFails
    \/ RunPageLoad
    \/ RunSubmit

Spec == Init /\ [][Next]_vars

(***************************************************************************)
(* The assessment as a function of its inputs: the body of "if submitted"  *)
(* applied to answers that need not come from the widgets.                 *)
(***************************************************************************)
\* An answer that is in no option list.
Unlisted == "Unknown"

sample_values ==
    [age_category |-> Range(age_categories) \cup {Unlisted},
     sex |-> Range(sex_options) \cup {Unlisted},
     bmi |-> {bmi_min, 250, 299, 300, 320, bmi_max},
     physical_health |-> {days_min, 14, 15, 20, days_max},
     mental_health |-> {days_min, 15, days_max},
     sleep_time |-> {sleep_min, 7, sleep_max},
     stroke |-> Range(yes_no_options) \cup {Unlisted},
     diff_walking |-> Range(yes_no_options) \cup {Unlisted},
     asthma |-> Range(yes_no_options) \cup {Unlisted},
     kidney_disease |-> Range(yes_no_options) \cup {Unlisted},
     skin_cancer |-> Range(yes_no_options) \cup {Unlisted},
     diabetic |-> Range(diabetic_options) \cup {Unlisted},
     gen_health |-> Range(gen_health_options) \cup {Unlisted},
     smoking |-> Range(yes_no_options) \cup {Unlisted},
     alcohol |-> Range(yes_no_options) \cup {Unlisted},
     physical_activity |-> Range(yes_no_options) \cup {Unlisted}]

\* Every combination of the five answers the risk factors are read from.
RiskInputs ==
    {[widget_defaults EXCEPT !.smoking = s, !.bmi = b,
                             !.physical_health = p, !.age_category = g,
                             !.diabetic = d] :
        s \in Range(yes_no_options), b \in {299, 300, 320},
        p \in {14, 15, 20}, g \in Range(age_categories),
        d \in Range(diabetic_options)}

\* A patient with one answer replaced by each of its sample values.
Variations(base) ==
    UNION {{[base EXCEPT ![f] = v] : v \in sample_values[f]} :
              f \in DOMAIN sample_values}

all_yes ==
    [age_category |-> "60-64", sex |-> "Male", bmi |-> 320,
     physical_health |-> 20, mental_health |-> 10, sleep_time |-> 5,
     stroke |-> "Yes", diff_walking |-> "Yes", asthma |-> "Yes",
     kidney_disease |-> "Yes", skin_cancer |-> "Yes", diabetic |-> "Yes",
     gen_health |-> "Good", smoking |-> "Yes", alcohol |-> "Yes",
     physical_activity |-> "Yes"]

CoreInputs == RiskInputs \cup Variations(widget_defaults) \cup Variations(all_yes)

InitCore ==
    /\ disk \in [model : ModelArtifacts, scaler : ScalerArtifacts]
    /\ model = disk.model
    /\ scaler = disk.scaler
    /\ loads = 1
    /\ startup = "ok"
    /\ submitted = FALSE
    /\ answers \in CoreInputs
    /\ reply \in Replies
    /\ input_df = <<>>
    /\ scaled_df = <<>>
    /\ out = [BlankPage EXCEPT !.form = TRUE]

\* Lines 83-181 applied once to the answers and artifacts of the state.
Assess ==
    /\ ~submitted
    /\ LET res == Assessment(out, answers, model, scaler, reply)
       IN  /\ input_df' = res.input_df
           /\ scaled_df' = res.scaled_df
           /\ out' = res.out
    /\ submitted' = TRUE
    /\ UNCHANGED <<disk, model, scaler, loads, startup, answers, reply>>

NextCore == Assess

SpecCore == InitCore /\ [][NextCore]_vars

(***************************************************************************)
(* Properties.                                                             *)
(***************************************************************************)
\* The cell of column c of a data frame.
Column(df, c) == df[CHOOSE k \in 1..Len(df) : df[k][1] = c][2]

NoResultShown ==
    /\ out.verdict = "None"
    /\ out.risk_percentage = <<>>
    /\ out.guidance = "None"

\* C1: every assessment that is not reported as failed shows a guidance
\* tier; the tier shown is Elevated exactly when the probability is at least
\* 0.5 and Low otherwise, whatever the class label is; with class label 0 and
\* probability exactly 0.5 the page shows NotAtRisk together with Elevated.
C1_GuidanceFollowsProbability ==
    submitted =>
        /\ ~out.failed => out.guidance # "None"
        /\ out.guidance # "None" =>
              /\ out.guidance \in {"Elevated", "Low"}
              /\ out.guidance = "Elevated" <=> reply.prob >= 5000
              /\ (reply.label = 0 /\ reply.prob = 5000) =>
                    (out.verdict = "NotAtRisk" /\ out.guidance = "Elevated")

C1_Witness ==
    /\ submitted
    /\ reply.label = 0
    /\ reply.prob = 5000
    /\ out.verdict = "NotAtRisk"
    /\ out.guidance = "Elevated"

\* C2: every assessment that is not reported as failed shows a verdict; the
\* verdict shown is AtRisk exactly when the class label is 1 and NotAtRisk
\* otherwise, on either side of probability 0.5.
C2_VerdictFollowsClassLabel ==
    submitted =>
        /\ ~out.failed => out.verdict # "None"
        /\ out.verdict # "None" =>
              /\ out.verdict \in {"AtRisk", "NotAtRisk"}
              /\ out.verdict = "AtRisk" <=> reply.label = 1

C2_Witness ==
    /\ submitted
    /\ reply.label = 1
    /\ reply.prob < 5000
    /\ out.verdict = "AtRisk"
    /\ out.guidance = "Low"

\* C3 as claimed: once the first load of the artifacts has failed, no run
\* ever shows a verdict, a risk percentage or a guidance tier.
C3_NoResultAfterFailedStartup == startup = "failed" => NoResultShown

\* The condition of each risk factor on the raw answers.
FlagHolds(label, a) ==
    CASE label = "Smoking" -> a.smoking = "Yes"
      [] label = "Obesity" -> a.bmi >= 300
      [] label = "Frequent physical health issues" -> a.physical_health >= 15
      [] label = "Age" ->
            a.age_category \in {"55-59", "60-64", "65-69", "70-74", "75-79",
                                "80 or older"}
      [] label = "Diabetes" -> a.diabetic # "No"

flag_order ==
    <<"Smoking", "Obesity", "Frequent physical health issues", "Age",
      "Diabetes">>

\* C4: every assessment that is not reported as failed shows a risk-factor
\* summary; the flags listed are exactly those whose condition holds on the
\* raw answers, in the fixed order, the obesity flag carrying the BMI and the
\* age flag the bracket; the list is empty exactly when the explicit
\* no-major-risk-factors sentence is shown.
C4_RiskFactorFlags ==
    submitted =>
        /\ ~out.failed => out.risk_summary # "None"
        /\ out.risk_summary # "None" =>
              /\ [i \in 1..Len(out.risk_factors) |->
                     out.risk_factors[i].label]
                 = SelectSeq(flag_order, LAMBDA l : FlagHolds(l, answers))
              /\ \A i \in 1..Len(out.risk_factors) :
                    /\ out.risk_factors[i].label = "Obesity" =>
                          out.risk_factors[i].bmi = answers.bmi
                    /\ out.risk_factors[i].label = "Age" =>
                          out.risk_factors[i].age = answers.age_category
              /\ out.risk_summary = "NoMajor" <=>
                    \A i \in 1..Len(flag_order) :
                        ~FlagHolds(flag_order[i], answers)
              /\ out.risk_summary = "Identified" <=> out.risk_factors # <<>>

C4_Witness ==
    /\ submitted
    /\ out.risk_summary = "Identified"
    /\ Len(out.risk_factors) = 5
    /\ answers.bmi = 300
    /\ answers.physical_health = 15

C6_FailureShowsNoResult == out.failed => NoResultShown

\* C7 as claimed: after the artifacts have been loaded once, no step loads
\* them again and the script's model and scaler stay the same values.
C7_LoadedOnce ==
    [][loads >= 1 =>
          (loads' = loads /\ model' = model /\ scaler' = scaler)]_vars

yes_no_columns ==
    [Smoking |-> "smoking", AlcoholDrinking |-> "alcohol",
     Stroke |-> "stroke", DiffWalking |-> "diff_walking",
     PhysicalActivity |-> "physical_activity", Asthma |-> "asthma",
     KidneyDisease |-> "kidney_disease", SkinCancer |-> "skin_cancer"]

\* The cell holds the zero-based position of v in list.
HoldsPosition(cell, list, v) ==
    /\ cell.d = 1
    /\ cell.n \in 0..(Len(list) - 1)
    /\ list[cell.n + 1] = v

Listed(a) ==
    /\ a.age_category \in Range(age_categories)
    /\ a.diabetic \in Range(diabetic_options)
    /\ a.gen_health \in Range(gen_health_options)

\* C8: the three lists have 13, 4 and 5 labels; an answer of a list is
\* encoded as its zero-based position in it; an answer in none raises, so
\* that the assessment is reported as failed with no vector built; Yes is
\* encoded 1 and No 0, Male 1 and Female 0.
C8_Encoding ==
    /\ Len(age_categories) = 13
    /\ Len(diabetic_options) = 4
    /\ Len(gen_health_options) = 5
    /\ submitted =>
          /\ ~Listed(answers) =>
                (out.failed /\ input_df = <<>> /\ NoResultShown)
          /\ Listed(answers) => input_df # <<>>
          /\ input_df # <<>> =>
                /\ HoldsPosition(Column(input_df, "AgeCategory"),
                                 age_categories, answers.age_category)
                /\ HoldsPosition(Column(input_df, "Diabetic"),
                                 diabetic_options, answers.diabetic)
                /\ HoldsPosition(Column(input_df, "GenHealth"),
                                 gen_health_options, answers.gen_health)
                /\ \A c \in DOMAIN yes_no_columns :
                      /\ answers[yes_no_columns[c]] = "Yes" =>
                            Column(input_df, c) = [n |-> 1, d |-> 1]
                      /\ answers[yes_no_columns[c]] = "No" =>
                            Column(input_df, c) = [n |-> 0, d |-> 1]
                /\ answers.sex = "Male" =>
                      Column(input_df, "Sex") = [n |-> 1, d |-> 1]
                /\ answers.sex = "Female" =>
                      Column(input_df, "Sex") = [n |-> 0, d |-> 1]

C8_Witness ==
    /\ submitted
    /\ answers.age_category = "80 or older"
    /\ answers.sex = "Male"
    /\ input_df # <<>>
    /\ Column(input_df, "AgeCategory") = [n |-> 12, d |-> 1]
    /\ Column(input_df, "Sex") = [n |-> 1, d |-> 1]

scaled_columns == {"BMI", "PhysicalHealth", "MentalHealth", "SleepTime"}

\* C9: when scaling is reached and returns, the scaled frame has the same
\* 16 columns in the same order as the frame built from the answers, and
\* every column other than BMI, PhysicalHealth, MentalHealth and SleepTime
\* holds the value it held before.
C9_ScalingFrame ==
    submitted =>
        /\ (input_df # <<>> /\ reply.transform = "ok") => scaled_df # <<>>
        /\ scaled_df # <<>> =>
              /\ Len(input_df) = 16
              /\ Len(scaled_df) = 16
              /\ \A i \in 1..16 :
                    /\ scaled_df[i][1] = input_df[i][1]
                    /\ input_df[i][1] \notin scaled_columns =>
                          scaled_df[i][2] = input_df[i][2]
              /\ Cardinality({i \in 1..16 :
                                 input_df[i][1] \notin scaled_columns}) = 12

C9_Witness ==
    /\ submitted
    /\ scaled_df # <<>>
    /\ Column(scaled_df, "BMI") # Column(input_df, "BMI")
    /\ Column(scaled_df, "SleepTime") # Column(input_df, "SleepTime")
    /\ Column(scaled_df, "AgeCategory") = [n |-> 8, d |-> 1]
    /\ Column(scaled_df, "SkinCancer") = [n |-> 1, d |-> 1]

canonical_order ==
    <<"BMI", "Smoking", "AlcoholDrinking", "Stroke", "PhysicalHealth",
      "MentalHealth", "DiffWalking", "Sex", "AgeCategory", "Diabetic",
      "PhysicalActivity", "GenHealth", "SleepTime", "Asthma",
      "KidneyDisease", "SkinCancer">>

\* C10: for answers that are all in their domains the frame is built, its
\* columns are the 16 names in the canonical order, BMI, PhysicalHealth,
\* MentalHealth and SleepTime hold the raw answers, and every other column
\* holds the encoding of its answer.
C10_AssembledVector ==
    (submitted /\ InDomain(answers)) =>
        /\ Len(input_df) = 16
        /\ [i \in 1..Len(input_df) |-> input_df[i][1]] = canonical_order
        /\ \A i \in 1..Len(input_df) : DOMAIN input_df[i] = 1..2
        /\ Column(input_df, "BMI") = [n |-> answers.bmi, d |-> 10]
        /\ Column(input_df, "PhysicalHealth")
              = [n |-> answers.physical_health, d |-> 1]
        /\ Column(input_df, "MentalHealth")
              = [n |-> answers.mental_health, d |-> 1]
        /\ Column(input_df, "SleepTime") = [n |-> answers.sleep_time, d |-> 1]
        /\ HoldsPosition(Column(input_df, "AgeCategory"), age_categories,
                         answers.age_category)
        /\ HoldsPosition(Column(input_df, "Diabetic"), diabetic_options,
                         answers.diabetic)
        /\ HoldsPosition(Column(input_df, "GenHealth"), gen_health_options,
                         answers.gen_health)
        /\ HoldsPosition(Column(input_df, "Sex"), sex_options, answers.sex)
        /\ \A c \in DOMAIN yes_no_columns :
              HoldsPosition(Column(input_df, c), yes_no_options,
                            answers[yes_no_columns[c]])

C10_Witness ==
    /\ submitted
    /\ InDomain(answers)
    /\ Len(input_df) = 16
    /\ answers.asthma = "Yes"
    /\ answers.kidney_disease = "No"
    /\ input_df[14] = <<"Asthma", [n |-> 1, d |-> 1]>>
    /\ input_df[15] = <<"KidneyDisease", [n |-> 0, d |-> 1]>>

====
